---- MODULE Spec2Model ----
(***************************************************************************)
(* A model of the two source files of pdfjs-annotation-extension:          *)
(*   src/src/utils/documentIcon.ts        createSvgIcon, createDocumentIcon *)
(*   src/src/components/paragraph/index.tsx   ExpandableParagraph           *)
(*                                                                         *)
(* JavaScript values are records [t, s, n, d]: t is the type tag, s the     *)
(* characters of a string (a sequence of one-character strings), n/d a      *)
(* number as a fraction with d > 0 (n alone carries the sign of an          *)
(* infinity).  Strings are over the alphabet the inputs below use: digits,  *)
(* "-", "+", " ", ",", letters and URL punctuation; no ".", "e" or "x"      *)
(* occurs inside a numeric attribute, so a number literal is an integer.    *)
(***************************************************************************)
EXTENDS Integers, Sequences, FiniteSets, TLC

VARIABLES
    \* one call of createSvgIcon
    pc,          \* "idle" | "start" | "fetching" | "reading" | "done" | "rejected"
    call,        \* the arguments {x, y, svg, size, fill, stroke, strokeWidth}
    source,      \* the document the markup denotes, or the one the URL serves
    fetches,     \* number of fetch() calls made
    response,    \* "none" | "ok" | "notok": the HTTP response the fetch resolved with
    parsed,      \* documents handed to DOMParser (a sequence, at most one)
    dims,        \* the vbX, vbY, vbW, vbH the scale is computed from
    icon,        \* the returned array of nodes
    \* one call of createDocumentIcon
    dpc,         \* "idle" | "start" | "done"
    dcall,       \* the arguments {x, y, fill, stroke, strokeWidth, cornerSize}
    dicon,       \* the returned array of nodes
    \* one ExpandableParagraph instance
    life,        \* "idle" | "unmounted" | "mounted" | "removing" | "removed"
    phase,       \* "idle" | "cleanup" | "effect": position in React's commit
    expanded,    \* useState(false)
    isOverflowing, \* useState(false)
    props,       \* {text, rows}
    capturedRows, \* rows in the closure of the measureOverflow the effect captured
    el,          \* the DOM element: scrollHeight and computed line-height
    connected,   \* ids of the ResizeObservers currently observing el
    pending,     \* ids of the observers with a notification queued
    created,     \* number of ResizeObservers constructed so far
    lastEvent    \* the handler that ran last

svgVars  == <<pc, call, source, fetches, response, parsed, dims, icon>>
docVars  == <<dpc, dcall, dicon>>
paraVars == <<life, phase, expanded, isOverflowing, props, capturedRows, el,
              connected, pending, created, lastEvent>>
vars     == <<svgVars, docVars, paraVars>>

----------------------------------------------------------------------------
(* JavaScript values *)

Undefined == [t |-> "undefined", s |-> <<>>, n |-> 0, d |-> 1]
JNull     == [t |-> "null",      s |-> <<>>, n |-> 0, d |-> 1]
NaN       == [t |-> "nan",       s |-> <<>>, n |-> 0, d |-> 1]
Str(cs)   == [t |-> "string",    s |-> cs,   n |-> 0, d |-> 1]
Num(i)    == [t |-> "number",    s |-> <<>>, n |-> i, d |-> 1]
Inf(sign) == [t |-> "inf",       s |-> <<>>, n |-> sign, d |-> 1]
Rat(a, b) == IF b > 0 THEN [t |-> "number", s |-> <<>>, n |-> a, d |-> b]
                      ELSE [t |-> "number", s |-> <<>>, n |-> -a, d |-> -b]

IsNumber(v) == v.t = "number"

\* a ?? b
Nullish(v)     == v.t \in {"undefined", "null"}
Coalesce(a, b) == IF Nullish(a) THEN b ELSE a

\* ToBoolean
Truthy(v) ==
    CASE v.t = "string" -> v.s # <<>>
      [] v.t = "number" -> v.n # 0
      [] v.t = "inf"    -> TRUE
      [] OTHER          -> FALSE

\* a || b
OrElse(a, b) == IF Truthy(a) THEN a ELSE b

Digits == <<"0", "1", "2", "3", "4", "5", "6", "7", "8", "9">>

IsDigit(c) == \E i \in 1..10 : Digits[i] = c

DigitVal(c) == (CHOOSE i \in 1..10 : Digits[i] = c) - 1

IsSpace(c) == c = " "

RECURSIVE DigitsValue(_, _)
\* the value of a run of decimal digits, acc the value of those already read
DigitsValue(cs, acc) ==
    IF cs = <<>> THEN acc
    ELSE DigitsValue(Tail(cs), acc * 10 + DigitVal(Head(cs)))

RECURSIVE TrimStart(_)
TrimStart(cs) ==
    IF cs # <<>> /\ IsSpace(Head(cs)) THEN TrimStart(Tail(cs)) ELSE cs

RECURSIVE TrimEnd(_)
TrimEnd(cs) ==
    IF cs # <<>> /\ IsSpace(cs[Len(cs)])
    THEN TrimEnd(SubSeq(cs, 1, Len(cs) - 1))
    ELSE cs

\* String.prototype.trim
Trim(cs) == TrimEnd(TrimStart(cs))

AllDigits(cs) == cs # <<>> /\ \A i \in 1..Len(cs) : IsDigit(cs[i])

\* Number(string): white space is trimmed, the empty string is 0, a signed
\* run of digits is its value, and anything else is NaN
StringToNumber(cs) ==
    LET t == Trim(cs)
        signed == t # <<>> /\ Head(t) \in {"-", "+"}
        body == IF signed THEN Tail(t) ELSE t
    IN  IF t = <<>> THEN Num(0)
        ELSE IF AllDigits(body)
             THEN Num(IF signed /\ Head(t) = "-"
                      THEN -DigitsValue(body, 0) ELSE DigitsValue(body, 0))
             ELSE NaN

\* Number(v)
ToNumber(v) ==
    CASE v.t = "string"    -> StringToNumber(v.s)
      [] v.t = "null"      -> Num(0)
      [] v.t = "undefined" -> NaN
      [] OTHER             -> v

RECURSIVE LeadingDigits(_)
LeadingDigits(cs) ==
    IF cs # <<>> /\ IsDigit(Head(cs))
    THEN <<Head(cs)>> \o LeadingDigits(Tail(cs))
    ELSE <<>>

\* parseFloat(string): leading white space is skipped and the longest numeric
\* prefix is read; NaN when there is none
ParseFloat(cs) ==
    LET t == TrimStart(cs)
        signed == t # <<>> /\ Head(t) \in {"-", "+"}
        body == IF signed THEN Tail(t) ELSE t
        ds == LeadingDigits(body)
    IN  IF ds = <<>> THEN NaN
        ELSE Num(IF signed /\ Head(t) = "-"
                 THEN -DigitsValue(ds, 0) ELSE DigitsValue(ds, 0))

RECURSIVE SkipSpaces(_, _)
\* the first index >= i of cs that holds no white space
SkipSpaces(cs, i) ==
    IF i <= Len(cs) /\ IsSpace(cs[i]) THEN SkipSpaces(cs, i + 1) ELSE i

RECURSIVE SplitFrom(_, _, _, _)
\* String.prototype.split(/\s+|,/): a separator is one whole run of white
\* space or one comma; cur is the piece being read, out the pieces cut so far
SplitFrom(cs, i, cur, out) ==
    IF i > Len(cs) THEN Append(out, cur)
    ELSE IF IsSpace(cs[i])
         THEN SplitFrom(cs, SkipSpaces(cs, i), <<>>, Append(out, cur))
    ELSE IF cs[i] = ","
         THEN SplitFrom(cs, i + 1, <<>>, Append(out, cur))
    ELSE SplitFrom(cs, i + 1, Append(cur, cs[i]), out)

SplitViewBox(cs) == SplitFrom(cs, 1, <<>>, <<>>)

----------------------------------------------------------------------------
(* createSvgIcon: source resolution *)

UpperCase == <<"A", "B", "C", "D", "E", "F", "G", "H", "I", "J", "K", "L", "M",
               "N", "O", "P", "Q", "R", "S", "T", "U", "V", "W", "X", "Y", "Z">>
LowerCase == <<"a", "b", "c", "d", "e", "f", "g", "h", "i", "j", "k", "l", "m",
               "n", "o", "p", "q", "r", "s", "t", "u", "v", "w", "x", "y", "z">>

ToLower(c) ==
    IF \E i \in 1..26 : UpperCase[i] = c
    THEN LowerCase[CHOOSE i \in 1..26 : UpperCase[i] = c]
    ELSE c

LowerAll(cs) == [i \in 1..Len(cs) |-> ToLower(cs[i])]

StartsWithNoCase(cs, prefix) ==
    /\ Len(cs) >= Len(prefix)
    /\ LowerAll(SubSeq(cs, 1, Len(prefix))) = prefix

\* /^https?:\/\//i
HasHttpPrefix(cs) ==
    \/ StartsWithNoCase(cs, <<"h", "t", "t", "p", ":", "/", "/">>)
    \/ StartsWithNoCase(cs, <<"h", "t", "t", "p", "s", ":", "/", "/">>)

\* /\.svg(\?.*)?$/i
HasSvgSuffix(cs) ==
    \E i \in 1..Len(cs) :
        /\ i + 3 <= Len(cs)
        /\ LowerAll(SubSeq(cs, i, i + 3)) = <<".", "s", "v", "g">>
        /\ IF i + 3 = Len(cs) THEN TRUE ELSE cs[i + 4] = "?"

IsUrl(cs) == HasHttpPrefix(cs) \/ HasSvgSuffix(cs)

----------------------------------------------------------------------------
(* createSvgIcon: the document and its dimensions *)

\* what DOMParser yields for text that is no SVG document (an HTML error
\* page, a file name): a root with none of the attributes read, and no path
ErrorDoc == [viewBox |-> JNull, width |-> JNull, height |-> JNull, paths |-> <<>>]

\* the inline markup; the document it denotes is held in source
Markup == <<"<", "s", "v", "g", "/", ">">>

\* parser.parseFromString(svgText, 'image/svg+xml') of the text passed inline
ParseInline(cs, src) == IF cs = Markup THEN src ELSE ErrorDoc

Zero4 == <<Num(0), Num(0), Num(0), Num(0)>>

\* vbAttr.trim().split(/\s+|,/).map(Number), kept when it has 4 entries
ViewBoxNums(vbAttr) ==
    IF Truthy(vbAttr)
    THEN LET pieces == SplitViewBox(Trim(vbAttr.s))
             nums == [i \in 1..Len(pieces) |-> StringToNumber(pieces[i])]
         IN  IF Len(nums) = 4 THEN nums ELSE Zero4
    ELSE Zero4

DefaultDim == 128

\* Number(svgEl.getAttribute(name) || 128)
FallbackDim(attr) == ToNumber(OrElse(attr, Num(DefaultDim)))

\* the source dimensions: the viewBox, or width/height when !vbW || !vbH
SourceDims(svgEl) ==
    LET nums == ViewBoxNums(svgEl.viewBox)
        fallback == ~Truthy(nums[3]) \/ ~Truthy(nums[4])
    IN  [vbX |-> nums[1], vbY |-> nums[2],
         vbW |-> IF fallback THEN FallbackDim(svgEl.width) ELSE nums[3],
         vbH |-> IF fallback THEN FallbackDim(svgEl.height) ELSE nums[4]]

\* Math.max of two values that are integers or NaN
MathMax(a, b) ==
    IF a.t = "nan" \/ b.t = "nan" THEN NaN
    ELSE IF a.n >= b.n THEN a ELSE b

\* a / b for an integer a and b an integer or NaN
Divide(a, b) ==
    IF b.t = "nan" THEN NaN
    ELSE IF b.n = 0
         THEN IF a.n = 0 THEN NaN ELSE Inf(IF a.n > 0 THEN 1 ELSE -1)
    ELSE Rat(a.n, b.n)

DefaultSize == 18

\* the default of the size parameter
SizeOf(c) == IF c.size.t = "undefined" THEN Num(DefaultSize) ELSE c.size

\* size / Math.max(vbW, vbH)
ScaleOf(size, dm) == Divide(size, MathMax(dm.vbW, dm.vbH))

----------------------------------------------------------------------------
(* createSvgIcon: the path nodes *)

None == <<"n", "o", "n", "e">>

\* the d test of the loop: if (!d) continue
HasData(p) == Truthy(p.d)

\* fill ?? p.getAttribute('fill') ?? undefined
PathPaint(override, attr) == Coalesce(Coalesce(override, attr), Undefined)

NodePaint_passNone(v) == IF Truthy(v) THEN v ELSE Undefined

\* pathFill && pathFill !== 'none' ? pathFill : undefined
NodePaint(v) == IF Truthy(v) /\ v # Str(None) THEN v ELSE Undefined

StrokeWidthOf_or(override, attr) ==
    OrElse(override, IF attr.t # "null" THEN ToNumber(attr) ELSE Num(0))

\* strokeWidth ?? (p.hasAttribute('stroke-width')
\*                   ? Number(p.getAttribute('stroke-width')) : undefined)
StrokeWidthOf(override, attr) ==
    Coalesce(override, IF attr.t # "null" THEN ToNumber(attr) ELSE Undefined)

\* new Konva.Path({data, fill, stroke, strokeWidth})
PathNode(c, p) ==
    [type |-> "Path",
     data |-> p.d,
     fill |-> NodePaint(PathPaint(c.fill, p.fill)),
     stroke |-> NodePaint(PathPaint(c.stroke, p.stroke)),
     strokeWidth |-> StrokeWidthOf(c.strokeWidth, p.sw)]

RECURSIVE AddPaths_break(_, _, _)
AddPaths_break(c, paths, children) ==
    IF paths = <<>> THEN children
    ELSE IF ~HasData(Head(paths)) THEN children
    ELSE AddPaths_break(c, Tail(paths), Append(children, PathNode(c, Head(paths))))

RECURSIVE AddPaths(_, _, _)
\* for (const p of paths) { if (!d) continue; ...; group.add(node) }
AddPaths(c, paths, children) ==
    IF paths = <<>> THEN children
    ELSE IF ~HasData(Head(paths)) THEN AddPaths(c, Tail(paths), children)
    ELSE AddPaths(c, Tail(paths), Append(children, PathNode(c, Head(paths))))

\* new Konva.Group({x, y, offsetX, offsetY, scaleX, scaleY}) with its children
GroupNode(c, dm, svgDoc) ==
    [type |-> "Group", x |-> c.x, y |-> c.y,
     offsetX |-> dm.vbX, offsetY |-> dm.vbY,
     scaleX |-> ScaleOf(SizeOf(c), dm), scaleY |-> ScaleOf(SizeOf(c), dm),
     children |-> AddPaths(c, svgDoc.paths, <<>>)]

NoDims == [vbX |-> Num(0), vbY |-> Num(0), vbW |-> Num(0), vbH |-> Num(0)]

\* everything after svgText is known: parse, measure, build, return [group]
Build(svgDoc) ==
    /\ parsed' = Append(parsed, svgDoc)
    /\ dims' = SourceDims(svgDoc)
    /\ icon' = <<GroupNode(call, SourceDims(svgDoc), svgDoc)>>
    /\ pc' = "done"

\* svg is not a URL: the whole function runs without suspending
CallInline ==
    /\ pc = "start"
    /\ ~IsUrl(call.svg)
    /\ Build(ParseInline(call.svg, source))
    /\ UNCHANGED <<call, source, fetches, response, docVars, paraVars>>

\* svg is a URL: fetch(svg) is issued and the function suspends
CallUrl ==
    /\ pc = "start"
    /\ IsUrl(call.svg)
    /\ fetches' = fetches + 1
    /\ pc' = "fetching"
    /\ UNCHANGED <<call, source, response, parsed, dims, icon, docVars, paraVars>>

\* fetch resolves with a response, of any status; .then(r => r.text()) reads it
FetchRespond ==
    /\ pc = "fetching"
    /\ \E r \in {"ok", "notok"} : response' = r
    /\ pc' = "reading"
    /\ UNCHANGED <<call, source, fetches, parsed, dims, icon, docVars, paraVars>>

\* the body arrives: the served document for a success, the server's error
\* page otherwise; the function resumes and runs to its return
BodyArrives ==
    /\ pc = "reading"
    /\ Build(IF response = "ok" THEN source ELSE ErrorDoc)
    /\ UNCHANGED <<call, source, fetches, response, docVars, paraVars>>

\* the fetch, or the read of the body, rejects: the await throws
FetchReject ==
    /\ pc \in {"fetching", "reading"}
    /\ pc' = "rejected"
    /\ UNCHANGED <<call, source, fetches, response, parsed, dims, icon, docVars,
                   paraVars>>

NextSvg == CallInline \/ CallUrl \/ FetchRespond \/ BodyArrives \/ FetchReject

----------------------------------------------------------------------------
(* The inputs the specifications draw from *)

MaxPaths == 2
MaxObservers == 3

RECURSIVE NatChars(_)
NatChars(k) ==
    IF k < 10 THEN <<Digits[k + 1]>>
    ELSE NatChars(k \div 10) \o <<Digits[(k % 10) + 1]>>

\* the decimal text of an integer
IntChars(k) == IF k < 0 THEN <<"-">> \o NatChars(-k) ELSE NatChars(k)

\* the text of a viewBox attribute holding the four numbers of q
ViewBoxText(q, sep) ==
    IntChars(q[1]) \o sep \o IntChars(q[2]) \o sep \o IntChars(q[3]) \o sep
        \o IntChars(q[4])

Origins == {<<0, 0>>, <<3, 5>>}
Extents == {-4, 0, 12, 24}
Quads == {<<o[1], o[2], w, h>> : o \in Origins, w \in Extents, h \in Extents}
Separators == {<<" ">>, <<",">>, <<",", " ">>}

ViewBoxAttrs ==
    {Str(ViewBoxText(q, sep)) : q \in Quads, sep \in Separators}
    \cup {JNull, Str(<<>>),
          Str(<<"0", " ", "0", " ", "2", "4">>),
          Str(<<" ", "0", " ", "0", " ", "p", " ", "2", "4", " ">>)}

DimAttrs == {JNull, Str(<<>>), Str(<<"0">>), Str(<<"6", "4">>),
             Str(<<"3", "2", "p", "x">>), Str(<<"-", "8">>)}

SvgStrings ==
    {Markup,
     <<"h", "t", "t", "p", ":", "/", "/", "h", "/", "i">>,
     <<"H", "T", "T", "P", "S", ":", "/", "/", "h", "/", "i">>,
     <<"i", ".", "S", "V", "G", "?", "v">>,
     <<"i", ".", "s", "v", "g", "z">>}

PlainPath == [d |-> Str(<<"M">>), fill |-> JNull, stroke |-> JNull, sw |-> JNull]

GeomCalls ==
    [x : {10}, y : {20}, svg : SvgStrings, size : {Undefined, Num(24)},
     fill : {Undefined}, stroke : {Undefined}, strokeWidth : {Undefined}]

GeomDocs ==
    [viewBox : ViewBoxAttrs, width : DimAttrs, height : DimAttrs,
     paths : {<<PlainPath>>}]

PaintAttrs == {JNull, Str(<<>>), Str(None), Str(<<"r", "e", "d">>)}
WidthAttrs == {JNull, Str(<<>>), Str(<<"2">>), Str(<<"p">>)}
DataAttrs == {JNull, Str(<<>>), Str(<<"M">>), Str(<<"L">>)}

\* path elements that differ from PlainPath in one attribute
PathEls ==
    {[PlainPath EXCEPT !.d = v] : v \in DataAttrs}
    \cup {[PlainPath EXCEPT !.fill = v] : v \in PaintAttrs}
    \cup {[PlainPath EXCEPT !.stroke = v] : v \in PaintAttrs}
    \cup {[PlainPath EXCEPT !.sw = v] : v \in WidthAttrs}

PathLists == UNION {[1..k -> PathEls] : k \in 0..MaxPaths}

PaintOverrides == {Undefined, JNull, Str(<<>>), Str(None), Str(<<"b", "l", "u", "e">>)}
WidthOverrides == {Undefined, JNull, Num(0), Num(3)}

PlainCall == [x |-> 10, y |-> 20, svg |-> Markup, size |-> Undefined,
              fill |-> Undefined, stroke |-> Undefined, strokeWidth |-> Undefined]

\* calls that override at most one style field, and one call by URL
PaintCalls ==
    {[PlainCall EXCEPT !.svg = u] : u \in {Markup, <<"i", ".", "s", "v", "g">>}}
    \cup {[PlainCall EXCEPT !.fill = v] : v \in PaintOverrides}
    \cup {[PlainCall EXCEPT !.stroke = v] : v \in PaintOverrides}
    \cup {[PlainCall EXCEPT !.strokeWidth = v] : v \in WidthOverrides}

PaintDocs ==
    [viewBox : {Str(ViewBoxText(<<0, 0, 24, 24>>, <<" ">>))}, width : {JNull},
     height : {JNull}, paths : PathLists]

Coords == {-3, 0, 10, 20}

DocCalls ==
    [x : Coords, y : Coords, fill : {Undefined, Str(<<"#", "f", "0", "0">>)},
     stroke : {Undefined}, strokeWidth : {Undefined, Num(2)},
     cornerSize : {Undefined, Num(0), Num(3), Num(5)}]

PropsSet == [text : {"a", "b"}, rows : {Undefined, Num(1), Num(3)}]

\* computed line heights: a length in px, the empty string, a keyword
LineHeights == {<<"2", "2", "p", "x">>, <<>>, <<"2", "0", "p", "x">>,
                <<"n", "o", "r", "m", "a", "l">>}

\* content heights one and two pixels over rows * lineHeight
Heights == {r * l + k : r \in {1, 3}, l \in {20, 22}, k \in {1, 2}}

Els == [scrollHeight : Heights, lineHeight : LineHeights]

----------------------------------------------------------------------------
(* createDocumentIcon.  Coordinates are exact fractions: the model leaves   *)
(* out the rounding of IEEE doubles.                                        *)

Add(a, b) == Rat(a.n * b.d + b.n * a.d, a.d * b.d)
Mul(a, b) == Rat(a.n * b.n, a.d * b.d)
Less(a, b) == a.n * b.d < b.n * a.d
SameNumber(a, b) == IsNumber(a) /\ IsNumber(b) /\ a.n * b.d = b.n * a.d

width == 16
height == 16
paddingTop == 4
paddingBottom == 4
textLineCount == 4
DefaultStrokeWidth == 1
DefaultCornerSize == 3

DefaultFill == Str(<<"r", "g", "b", "(", "2", "5", "5", ",", " ", "2", "2", "2",
                     ",", " ", "3", "3", ")">>)
DefaultStroke == Str(<<"#", "0", "0", "0">>)
White == Str(<<"#", "f", "f", "f">>)
LineStroke == Str(<<"#", "5", "5", "5">>)

\* a parameter default: used when the argument is undefined
DefaultTo(v, dflt) == IF v.t = "undefined" THEN dflt ELSE v

\* (height - paddingTop - paddingBottom) / (textLineCount + 1)
spacing == Rat(height - paddingTop - paddingBottom, textLineCount + 1)

\* new Konva.Rect({...})
RectNode(c) ==
    [type |-> "Rect", x |-> Num(c.x), y |-> Num(c.y),
     width |-> Num(width), height |-> Num(height),
     gradientStops |-> <<Num(0), DefaultTo(c.fill, DefaultFill), Num(1), White>>,
     stroke |-> DefaultTo(c.stroke, DefaultStroke),
     \* [top-left, top-right, bottom-right, bottom-left]
     cornerRadius |-> <<Num(0), DefaultTo(c.cornerSize, Num(DefaultCornerSize)),
                        Num(0), Num(0)>>,
     strokeWidth |-> DefaultTo(c.strokeWidth, Num(DefaultStrokeWidth))]

yPos_fromTop(c, i) == Add(Num(c.y), Mul(Num(i), spacing))

\* y + paddingTop + i * spacing
yPos(c, i) == Add(Add(Num(c.y), Num(paddingTop)), Mul(Num(i), spacing))

\* i === 1 ? x + width - 6 : x + width - 3
xEnd(c, i) == IF i = 1 THEN Num(c.x + width - 6) ELSE Num(c.x + width - 3)

\* new Konva.Line({points: [x + 3, yPos, xEnd, yPos], ...})
LineNode(c, i) ==
    [type |-> "Line",
     points |-> <<Num(c.x + 3), yPos(c, i), xEnd(c, i), yPos(c, i)>>,
     stroke |-> LineStroke, strokeWidth |-> Rat(6, 10), lineCap |-> "round"]

\* for (let i = 1; i <= textLineCount; i++) lines.push(line)
Lines(c) == [i \in 1..textLineCount |-> LineNode(c, i)]

\* the whole function: return [rect, ...lines]
CreateDocumentIcon ==
    /\ dpc = "start"
    /\ dicon' = <<RectNode(dcall)>> \o Lines(dcall)
    /\ dpc' = "done"
    /\ UNCHANGED <<dcall, svgVars, paraVars>>

NextDoc == CreateDocumentIcon

----------------------------------------------------------------------------
(* ExpandableParagraph *)

DefaultRows == 3
DefaultLineHeight == <<"2", "2">>

\* the rows = 3 default of the props
RowsOf(p) == IF p.rows.t = "undefined" THEN Num(DefaultRows) ELSE p.rows

\* parseFloat(computedStyle.lineHeight || '22')
LineHeightOf(e) == ParseFloat(OrElse(Str(e.lineHeight), Str(DefaultLineHeight)).s)

\* el.scrollHeight > lineHeight * rows + 1; a comparison with NaN is false
IsOver(e, rows) ==
    LET lineHeight == LineHeightOf(e)
    IN  IF lineHeight.t = "nan" THEN FALSE
        ELSE Less(Add(Mul(lineHeight, rows), Num(1)), Num(e.scrollHeight))

AffordanceShown_always == TRUE

\* {isOverflowing && <a onClick={toggleExpanded}>}
AffordanceShown == isOverflowing

Released_none(ids, id) == ids

\* resizeObserver.disconnect(): id observes nothing and has nothing queued
Released(ids, id) == ids \ {id}

\* the first render and commit: the ref is attached, the layout effect is due
Mount ==
    /\ life = "unmounted"
    /\ life' = "mounted"
    /\ phase' = "effect"
    /\ lastEvent' = "mount"
    /\ UNCHANGED <<svgVars, docVars>>
    /\ UNCHANGED <<expanded, isOverflowing, props, capturedRows, el, connected,
                   pending, created>>

\* the body of useLayoutEffect: a new observer observes el (which queues its
\* first notification), then measureOverflow() of this render runs
RunEffect ==
    /\ phase = "effect"
    /\ created' = created + 1
    /\ connected' = connected \cup {created + 1}
    /\ pending' = pending \cup {created + 1}
    /\ capturedRows' = RowsOf(props)
    /\ isOverflowing' = IsOver(el, RowsOf(props))
    /\ phase' = "idle"
    /\ lastEvent' = "effect"
    /\ UNCHANGED <<svgVars, docVars>>
    /\ UNCHANGED <<life, expanded, props, el>>

\* the function the effect returned: () => resizeObserver.disconnect().
\* On unmount the element then leaves the document, which any observer
\* still connected is notified of
RunCleanup ==
    /\ phase = "cleanup"
    /\ connected' = Released(connected, created)
    /\ IF life = "removing"
       THEN /\ life' = "removed"
            /\ phase' = "idle"
            /\ pending' = Released(connected, created)
       ELSE /\ life' = life
            /\ phase' = "effect"
            /\ pending' = Released(pending, created)
    /\ lastEvent' = "cleanup"
    /\ UNCHANGED <<svgVars, docVars>>
    /\ UNCHANGED <<expanded, isOverflowing, props, capturedRows, el, created>>

\* the ResizeObserver callback: measureOverflow() of the render the effect
\* ran in; it returns at once when textRef.current is null
ObserverCallback ==
    /\ phase = "idle"
    /\ \E id \in pending \cap connected :
        /\ pending' = pending \ {id}
        /\ isOverflowing' = IF life = "mounted" THEN IsOver(el, capturedRows)
                            ELSE isOverflowing
    /\ lastEvent' = "callback"
    /\ UNCHANGED <<svgVars, docVars>>
    /\ UNCHANGED <<life, phase, expanded, props, capturedRows, el, connected,
                   created>>

\* toggleExpanded, reachable only through the rendered affordance
Click ==
    /\ life = "mounted"
    /\ phase = "idle"
    /\ AffordanceShown
    /\ expanded' = ~expanded
    /\ lastEvent' = "click"
    /\ UNCHANGED <<svgVars, docVars>>
    /\ UNCHANGED <<life, phase, isOverflowing, props, capturedRows, el, connected,
                   pending, created>>

\* the parent removes the widget: React runs the effect's cleanup
Unmount ==
    /\ life = "mounted"
    /\ phase = "idle"
    /\ life' = "removing"
    /\ phase' = "cleanup"
    /\ lastEvent' = "unmount"
    /\ UNCHANGED <<svgVars, docVars>>
    /\ UNCHANGED <<expanded, isOverflowing, props, capturedRows, el, connected,
                   pending, created>>

\* the parent passes new props and, with them, the element is laid out anew;
\* the effect is due again only when text or rows (a dependency) changed
SetProps ==
    /\ life = "mounted"
    /\ phase = "idle"
    /\ created < MaxObservers
    /\ \E p \in PropsSet, e \in Els :
        /\ p # props
        /\ props' = p
        /\ el' = e
        /\ phase' = IF p.text # props.text \/ RowsOf(p) # RowsOf(props)
                    THEN "cleanup" ELSE "idle"
    /\ lastEvent' = "setProps"
    /\ UNCHANGED <<svgVars, docVars>>
    /\ UNCHANGED <<life, expanded, isOverflowing, capturedRows, connected, pending,
                   created>>

\* the environment lays the element out anew (a window resize, a style
\* change); the observers are notified when its box changed
Resize ==
    /\ life = "mounted"
    /\ phase = "idle"
    /\ \E e \in Els, notify \in BOOLEAN :
        /\ e # el
        /\ el' = e
        /\ pending' = IF notify THEN pending \cup connected ELSE pending
    /\ lastEvent' = "resize"
    /\ UNCHANGED <<svgVars, docVars>>
    /\ UNCHANGED <<life, phase, expanded, isOverflowing, props, capturedRows,
                   connected, created>>

NextPara ==
    \/ Mount
    \/ RunEffect
    \/ RunCleanup
    \/ ObserverCallback
    \/ Click
    \/ SetProps
    \/ Resize
    \/ Unmount

----------------------------------------------------------------------------
(* The specifications *)

IdleSvg ==
    /\ pc = "idle"
    /\ call = [x |-> 0, y |-> 0, svg |-> Markup, size |-> Undefined,
               fill |-> Undefined, stroke |-> Undefined, strokeWidth |-> Undefined]
    /\ source = ErrorDoc
    /\ fetches = 0
    /\ response = "none"
    /\ parsed = <<>>
    /\ dims = NoDims
    /\ icon = <<>>

IdleDoc ==
    /\ dpc = "idle"
    /\ dcall = [x |-> 0, y |-> 0, fill |-> Undefined, stroke |-> Undefined,
                strokeWidth |-> Undefined, cornerSize |-> Undefined]
    /\ dicon = <<>>

IdlePara ==
    /\ life = "idle"
    /\ phase = "idle"
    /\ expanded = FALSE
    /\ isOverflowing = FALSE
    /\ props = [text |-> "a", rows |-> Undefined]
    /\ capturedRows = Undefined
    /\ el = [scrollHeight |-> 0, lineHeight |-> <<>>]
    /\ connected = {}
    /\ pending = {}
    /\ created = 0
    /\ lastEvent = "init"

StartSvg(c, src) ==
    /\ pc = "start"
    /\ call = c
    /\ source = src
    /\ fetches = 0
    /\ response = "none"
    /\ parsed = <<>>
    /\ dims = NoDims
    /\ icon = <<>>

\* createSvgIcon over the sources and geometries
InitGeom ==
    /\ \E c \in GeomCalls, src \in GeomDocs : StartSvg(c, src)
    /\ IdleDoc
    /\ IdlePara

SpecGeom == InitGeom /\ [][NextSvg]_vars

\* createSvgIcon over the paths and style overrides
InitPaint ==
    /\ \E c \in PaintCalls, src \in PaintDocs : StartSvg(c, src)
    /\ IdleDoc
    /\ IdlePara

SpecPaint == InitPaint /\ [][NextSvg]_vars

\* createDocumentIcon
InitDoc ==
    /\ dpc = "start"
    /\ dcall \in DocCalls
    /\ dicon = <<>>
    /\ IdleSvg
    /\ IdlePara

SpecDoc == InitDoc /\ [][NextDoc]_vars

\* one ExpandableParagraph, from before its mount
InitPara ==
    /\ life = "unmounted"
    /\ phase = "idle"
    /\ expanded = FALSE
    /\ isOverflowing = FALSE
    /\ props \in PropsSet
    /\ capturedRows = Undefined
    /\ el \in Els
    /\ connected = {}
    /\ pending = {}
    /\ created = 0
    /\ lastEvent = "init"
    /\ IdleSvg
    /\ IdleDoc

SpecPara == InitPara /\ [][NextPara]_vars

----------------------------------------------------------------------------
(* Claims about createSvgIcon's path nodes, under SpecPaint *)

Returned == pc = "done"

\* the document DOMParser was given, the returned group and its children
ParsedDoc == parsed[1]
Group == icon[1]
Children == Group.children

CarriesD(p) == p.d.t = "string"
CarriesData(p) == p.d.t = "string" /\ p.d.s # <<>>

\* the children are one Path per element of kept, in order
ChildrenAre(kept) ==
    /\ Len(Children) = Len(kept)
    /\ \A k \in 1..Len(kept) :
        /\ Children[k].type = "Path"
        /\ Children[k].data = kept[k].d

OneGroup == Len(icon) = 1 /\ Group.type = "Group"

\* C1 as stated: the returned array holds one group whose children are
\* exactly the paths that carry a d attribute, in document order
C1_ChildrenArePathsCarryingD ==
    Returned => OneGroup /\ ChildrenAre(SelectSeq(ParsedDoc.paths, CarriesD))

\* C1 amended: the returned array holds one group whose children are exactly
\* the paths whose d attribute is present and not empty, one child per such
\* path, in document order; a document without paths gives an empty group
C1_ChildrenArePathsWithData ==
    Returned => OneGroup /\ ChildrenAre(SelectSeq(ParsedDoc.paths, CarriesData))

\* a path without d ahead of a sibling with d: only the sibling is a child
C1_Witness ==
    /\ Returned
    /\ Len(ParsedDoc.paths) = 2
    /\ ParsedDoc.paths[1].d.t = "null"
    /\ CarriesData(ParsedDoc.paths[2])
    /\ Len(Children) = 1
    /\ Children[1].data = ParsedDoc.paths[2].d

\* the path elements the children were built from, in order
Kept == SelectSeq(ParsedDoc.paths, CarriesData)

Provided(v) == v.t \notin {"undefined", "null"}
Usable(v) == v.t = "string" /\ v.s # <<>> /\ v.s # None

PaintAsStated(override, attr, node) ==
    /\ Provided(override) => node = override
    /\ ~Provided(override) /\ attr.t = "string" /\ attr.s # None => node = attr
    /\ ~Provided(override) /\ ~(attr.t = "string" /\ attr.s # None)
         => node = Undefined
    /\ node # Str(None)

PaintAmended(override, attr, node) ==
    /\ Provided(override) /\ Usable(override) => node = override
    /\ Provided(override) /\ ~Usable(override) => node = Undefined
    /\ ~Provided(override) /\ Usable(attr) => node = attr
    /\ ~Provided(override) /\ ~Usable(attr) => node = Undefined
    /\ node # Str(None)

\* C2 as stated: fill and stroke of every child are the override when one is
\* provided, else the path's attribute when present and not "none", else
\* unset, and never "none"
C2_PaintOverrideElseDeclared ==
    Returned /\ Len(Children) = Len(Kept) =>
        \A k \in 1..Len(Kept) :
            /\ PaintAsStated(call.fill, Kept[k].fill, Children[k].fill)
            /\ PaintAsStated(call.stroke, Kept[k].stroke, Children[k].stroke)

\* C2 amended: fill and stroke of every child are the override when one is
\* provided and is a non-empty string other than "none"; unset when the
\* override is provided but empty or "none"; without an override, the path's
\* attribute when it is present, non-empty and not "none"; unset otherwise;
\* and never "none"
C2_PaintUsableOverrideElseUsableDeclared ==
    Returned =>
        /\ Len(Children) = Len(Kept)
        /\ \A k \in 1..Len(Kept) :
            /\ PaintAmended(call.fill, Kept[k].fill, Children[k].fill)
            /\ PaintAmended(call.stroke, Kept[k].stroke, Children[k].stroke)

\* no override, a path with fill="none" and one with fill="red": the first
\* child has no fill and the second is red
C2_Witness ==
    /\ Returned
    /\ ~Provided(call.fill)
    /\ Len(Kept) = 2
    /\ Kept[1].fill = Str(None)
    /\ Children[1].fill = Undefined
    /\ Kept[2].fill = Str(<<"r", "e", "d">>)
    /\ Children[2].fill = Kept[2].fill

\* C6: strokeWidth of every child is the override when one is provided, else
\* the numeric value of the path's stroke-width attribute when it has one,
\* else unset, and then it is not 0
C6_StrokeWidthOverrideElseDeclared ==
    Returned =>
        /\ Len(Children) = Len(Kept)
        /\ \A k \in 1..Len(Kept) :
            LET node == Children[k].strokeWidth
                attr == Kept[k].sw
            IN  /\ Provided(call.strokeWidth) => node = call.strokeWidth
                /\ ~Provided(call.strokeWidth) /\ attr.t = "string"
                     => node = StringToNumber(attr.s)
                /\ ~Provided(call.strokeWidth) /\ attr.t = "null"
                     => node = Undefined /\ node # Num(0)

\* neither an override nor a stroke-width attribute: the child has none
C6_Witness ==
    /\ Returned
    /\ ~Provided(call.strokeWidth)
    /\ Len(Kept) = 2
    /\ Kept[1].sw = JNull
    /\ Children[1].strokeWidth = Undefined
    /\ Kept[2].sw = Str(<<"2">>)
    /\ Children[2].strokeWidth = Num(2)

----------------------------------------------------------------------------
(* Claims about createSvgIcon's source and geometry, under SpecGeom *)

IsSeparator(c) == IsSpace(c) \/ c = ","

RECURSIVE NumberList(_, _, _)
\* the numbers of an SVG list of numbers, which white space and/or a comma
\* separate: cur is the number being read, out those read so far
NumberList(cs, cur, out) ==
    IF cs = <<>> THEN (IF cur = <<>> THEN out ELSE Append(out, cur))
    ELSE IF IsSeparator(Head(cs))
         THEN NumberList(Tail(cs), <<>>, IF cur = <<>> THEN out ELSE Append(out, cur))
    ELSE NumberList(Tail(cs), Append(cur, Head(cs)), out)

\* the document declares the viewBox (minX, minY, w, h) with w > 0 and h > 0
DeclaresViewBox(svgDoc) ==
    /\ svgDoc.viewBox.t = "string"
    /\ LET ns == NumberList(svgDoc.viewBox.s, <<>>, <<>>)
       IN  /\ Len(ns) = 4
           /\ \A i \in 1..4 : IsNumber(StringToNumber(ns[i]))
           /\ StringToNumber(ns[3]).n > 0
           /\ StringToNumber(ns[4]).n > 0

DeclaredViewBox(svgDoc) ==
    LET ns == NumberList(svgDoc.viewBox.s, <<>>, <<>>)
    IN  [i \in 1..4 |-> StringToNumber(ns[i])]

Longer(a, b) == IF Less(a, b) THEN b ELSE a

\* C3: for a viewBox (minX, minY, w, h) with w, h > 0 and a size S the group
\* has scaleX = scaleY = S / max(w, h) and the offset (minX, minY)
C3_ScaleIsSizeOverLongerEdge ==
    Returned /\ DeclaresViewBox(ParsedDoc) =>
        LET vb == DeclaredViewBox(ParsedDoc)
            longer == Longer(vb[3], vb[4])
        IN  /\ IsNumber(Group.scaleX)
            /\ SameNumber(Mul(Group.scaleX, longer), SizeOf(call))
            /\ Group.scaleY = Group.scaleX
            /\ Group.offsetX = vb[1]
            /\ Group.offsetY = vb[2]

\* C4: whatever the viewBox, width and height attributes are, the width and
\* height the scale is computed from are positive, and the scale is a finite
\* positive number
C4_DimensionsArePositive ==
    Returned =>
        /\ IsNumber(dims.vbW) /\ dims.vbW.n > 0
        /\ IsNumber(dims.vbH) /\ dims.vbH.n > 0
        /\ IsNumber(Group.scaleX) /\ Group.scaleX.n > 0

\* C5: a URL is fetched once, and a fetch that fails or answers with a
\* non-success status ends in an error: nothing is parsed, nothing returned
C5_FailedFetchPropagates ==
    /\ fetches <= 1
    /\ pc = "rejected" \/ response = "notok" =>
        /\ pc # "done"
        /\ parsed = <<>>
        /\ icon = <<>>

----------------------------------------------------------------------------
(* The claim about createDocumentIcon, under SpecDoc *)

GivenCornerSize == DefaultTo(dcall.cornerSize, Num(DefaultCornerSize))

LineY(i) == dicon[i + 1].points[2]

\* C7: the result is a 16 x 16 rectangle at (x, y) rounded at the top right
\* only, then 4 horizontal lines from x + 3, top to bottom, evenly spaced
\* between y + 4 and y + 12, the first ending at x + 10 and the others at x + 13
C7_RectangleThenFourLines ==
    dpc = "done" =>
        /\ Len(dicon) = 5
        /\ dicon[1].type = "Rect"
        /\ dicon[1].x = Num(dcall.x) /\ dicon[1].y = Num(dcall.y)
        /\ dicon[1].width = Num(16) /\ dicon[1].height = Num(16)
        /\ dicon[1].cornerRadius = <<Num(0), GivenCornerSize, Num(0), Num(0)>>
        /\ \A i \in 1..4 :
            /\ dicon[i + 1].type = "Line"
            /\ Len(dicon[i + 1].points) = 4
            /\ dicon[i + 1].points[4] = LineY(i)
            /\ SameNumber(dicon[i + 1].points[1], Num(dcall.x + 3))
            /\ SameNumber(dicon[i + 1].points[3],
                          Num(dcall.x + (IF i = 1 THEN 10 ELSE 13)))
            /\ Less(Num(dcall.y + 4), LineY(i))
            /\ Less(LineY(i), Num(dcall.y + 12))
        /\ \A i \in 1..3 : Less(LineY(i), LineY(i + 1))
        /\ \A i \in 1..2 :
            SameNumber(Add(LineY(i), LineY(i + 2)), Mul(Num(2), LineY(i + 1)))

\* the icon at (10, 20) with cornerSize 3
C7_Witness ==
    /\ dpc = "done"
    /\ dcall.x = 10 /\ dcall.y = 20 /\ dcall.cornerSize = Num(3)
    /\ Len(dicon) = 5
    /\ dicon[1].cornerRadius[2] = Num(3)
    /\ SameNumber(dicon[2].points[3], Num(20))
    /\ SameNumber(dicon[5].points[3], Num(23))

----------------------------------------------------------------------------
(* Claims about ExpandableParagraph, under SpecPara *)

\* C8: expanded starts false and changes only by a click on the affordance,
\* made while overflow is detected; a measurement never changes it
C8_ExpandedChangesOnlyByClick ==
    /\ expanded = FALSE
    /\ [][expanded' # expanded =>
            /\ lastEvent' = "click"
            /\ isOverflowing
            /\ expanded' = ~expanded]_vars

\* a measurement found no overflow while the paragraph was expanded
C8_Witness ==
    /\ life = "mounted"
    /\ lastEvent = "callback"
    /\ expanded
    /\ ~isOverflowing

\* the line height the claim measures with: the computed one, or 22 when it
\* cannot be read as a number
StatedLineHeight(e) ==
    IF ParseFloat(e.lineHeight).t = "nan" THEN Num(22) ELSE ParseFloat(e.lineHeight)

C10_AtMostOneObserver ==
    /\ Cardinality(connected) <= 1
    /\ phase = "effect" => connected = {}
    /\ life = "removed" => connected = {} /\ pending = {}
    /\ lastEvent = "callback" => life = "mounted"

\* the second observer is the only one connected; then the widget is removed
C10_Witness ==
    /\ life = "removed"
    /\ created >= 2
    /\ connected = {}

====
